---- MODULE Spec2Model ----
(***************************************************************************)
(* Model of matplotlib_ephys/plotting.py: style resolution, scale-bar      *)
(* length selection, scale-bar position, scale-bar drawing with the        *)
(* measure-then-place labels, and the plot_trace orchestration.            *)
(*                                                                         *)
(* Numbers.  The code works on Python floats.  In the model               *)
(*   - axis limits, series values, bar lengths and measured text extents   *)
(*     are integers counting thousandths (0.001) of the data unit: the     *)
(*     decimal numbers the caller and the candidate lists write;           *)
(*   - the fraction bar_length is an integer counting twentieths           *)
(*     (3 = 0.15);                                                         *)
(*   - compute_scale_bar_length turns these into the floats they denote    *)
(*     and selects the lengths with Python's float arithmetic, bit for     *)
(*     bit: the subtraction, the product, abs and the comparison of the    *)
(*     keys round as IEEE 754 binary64 does;                               *)
(*   - computed positions (bar origin, bar end points, label positions)    *)
(*     are integers counting ten-thousandths (0.0001), because the code    *)
(*     multiplies thousandths by 1.2, 0.3, 0.5, 1.8 and 1.3: the decimal   *)
(*     value the code's float is the rounding of.                          *)
(***************************************************************************)
EXTENDS Integers, Sequences, FiniteSets, TLC

VARIABLES
    op,     \* name of the function of plotting.py that has been called, "none" before
    arg,    \* the arguments of that call
    ret,    \* what the call returned or raised
    axes,   \* the drawing surfaces: axis id -> axis state
    log     \* the calls made on the rendering library, in order

vars == <<op, arg, ret, axes, log>>

(***************************************************************************)
(* Bounds of the inputs.                                                   *)
(***************************************************************************)
MaxMant == 7    \* axis widths are m * 10^e thousandths, m in 1..MaxMant
MaxExp == 6     \*                                       e in 0..MaxExp

RECURSIVE Pow10(_)
Pow10(e) == IF e = 0 THEN 1 ELSE 10 * Pow10(e - 1)

(***************************************************************************)
(* Python values.                                                          *)
(***************************************************************************)
\* A Style object (style.py): the three layout flags plot_trace reads.
\* kind is the class: "ExploreStyle", "PaperStyle", or "Style" for one the
\* caller built.
StyleKinds == {"ExploreStyle", "PaperStyle", "Style"}
Styles == [kind : StyleKinds, scale_bars : BOOLEAN, show_spines : BOOLEAN, shared_axis : BOOLEAN]
NoStyle == [kind |-> "none", scale_bars |-> FALSE, show_spines |-> FALSE, shared_axis |-> FALSE]

\* The style argument: a str (name) or a Style object (obj).
StrArg(name) == [type |-> "str", name |-> name, obj |-> NoStyle]
StyleArg(s) == [type |-> "Style", name |-> "", obj |-> s]

\* ExploreStyle() and PaperStyle(): the presets of style.py.  "explore" keeps
\* the conventional axes and labels; "paper" hides the spines and draws
\* scale bars.
ExploreStyle ==
    [kind |-> "ExploreStyle", scale_bars |-> FALSE, show_spines |-> TRUE,
     shared_axis |-> FALSE]
PaperStyle ==
    [kind |-> "PaperStyle", scale_bars |-> TRUE, show_spines |-> FALSE,
     shared_axis |-> FALSE]

\* The result of a call: exc is "none" or the exception raised.
Ok(v) == [exc |-> "none", value |-> v]
Raise(e, v) == [exc |-> e, value |-> v]

(***************************************************************************)
(* define_style                                                            *)
(***************************************************************************)
\* define_style falling back to the default preset for an unknown name.
define_style_fallback(style) ==
    IF style.type = "str"
    THEN IF style.name = "paper" THEN Ok(PaperStyle) ELSE Ok(ExploreStyle)
    ELSE Ok(style.obj)

define_style(style) ==
    IF style.type = "str"
    THEN IF style.name = "explore" THEN Ok(ExploreStyle)
         ELSE IF style.name = "paper" THEN Ok(PaperStyle)
         ELSE Raise("ValueError: Unknown style", NoStyle)
    ELSE Ok(style.obj)

(***************************************************************************)
(* get_n_plots                                                             *)
(***************************************************************************)
\* get_n_plots forgetting that a shared axis takes both traces.
get_n_plots_unshared(n_voltage_series, n_current_series, shared_axis) ==
    n_voltage_series + n_current_series

get_n_plots(n_voltage_series, n_current_series, shared_axis) ==
    IF shared_axis \/ n_current_series = 0
    THEN n_voltage_series
    ELSE n_voltage_series + n_current_series

(***************************************************************************)
(* Python floats.  A float is an IEEE 754 binary64 number: every           *)
(* arithmetic result is rounded to Mantissa significant bits, to nearest,  *)
(* ties to the even neighbour.  The floats compute_scale_bar_length meets  *)
(* are multiples of 2^-Fraction below 2^20, so a float is held as a sign   *)
(* and a magnitude counting units of 2^-Fraction.  A magnitude is a        *)
(* natural number below Base^Limbs, held as Limbs digits in base Base,     *)
(* the least significant first.                                            *)
(***************************************************************************)
Mantissa == 53
Fraction == 70
Limbs == 12
LimbBits == 15
Base == 2^LimbBits

\* The element of a one-element set.  TheValue({F(v) : v \in {e}}) is F(e)
\* with e computed once, however often F uses it.
TheValue(S) == CHOOSE v \in S : TRUE

BigZero == [i \in 1..Limbs |-> 0]

\* The number n, 0 <= n < 2^31.
BigOfInt(n) ==
    [i \in 1..Limbs |->
        IF i = 1 THEN n % Base
        ELSE IF i = 2 THEN (n \div Base) % Base
        ELSE IF i = 3 THEN n \div (Base * Base)
        ELSE 0]

RECURSIVE BigAddFrom(_, _, _, _)
BigAddFrom(a, b, i, carry) ==
    IF i > Limbs THEN <<>>
    ELSE TheValue({<<s % Base>> \o BigAddFrom(a, b, i + 1, s \div Base) :
                      s \in {a[i] + b[i] + carry}})

BigAdd(a, b) == TheValue({BigAddFrom(x, y, 1, 0) : x \in {a}, y \in {b}})

\* a - b, for a >= b.
RECURSIVE BigSubFrom(_, _, _, _)
BigSubFrom(a, b, i, borrow) ==
    IF i > Limbs THEN <<>>
    ELSE TheValue({<<s % Base>> \o BigSubFrom(a, b, i + 1, IF s < 0 THEN 1 ELSE 0) :
                      s \in {a[i] - b[i] - borrow}})

BigSub(a, b) == TheValue({BigSubFrom(x, y, 1, 0) : x \in {a}, y \in {b}})

RECURSIVE BigLessFrom(_, _, _)
BigLessFrom(a, b, i) ==
    IF i = 0 THEN FALSE
    ELSE IF a[i] = b[i] THEN BigLessFrom(a, b, i - 1)
    ELSE a[i] < b[i]

BigLess(a, b) == TheValue({BigLessFrom(x, y, Limbs) : x \in {a}, y \in {b}})

BigIsZero(a) == a = BigZero

\* a * 2^d and floor(a / 2^d).
BigShiftLeft(a, d) ==
    TheValue({[i \in 1..Limbs |->
                  ((IF i - q >= 1 THEN x[i - q] ELSE 0) % 2^(LimbBits - r)) * 2^r
                  + ((IF i - q - 1 >= 1 THEN x[i - q - 1] ELSE 0) \div 2^(LimbBits - r))] :
                 x \in {a}, q \in {d \div LimbBits}, r \in {d % LimbBits}})

BigShiftRight(a, d) ==
    TheValue({[i \in 1..Limbs |->
                  ((IF i + q <= Limbs THEN x[i + q] ELSE 0) \div 2^r)
                  + ((IF i + q + 1 <= Limbs THEN x[i + q + 1] ELSE 0) % 2^r) * 2^(LimbBits - r)] :
                 x \in {a}, q \in {d \div LimbBits}, r \in {d % LimbBits}})

\* a * k, for 0 <= k < Base.
RECURSIVE BigTimesFrom(_, _, _, _)
BigTimesFrom(a, k, i, carry) ==
    IF i > Limbs THEN <<>>
    ELSE TheValue({<<s % Base>> \o BigTimesFrom(a, k, i + 1, s \div Base) :
                      s \in {a[i] * k + carry}})

BigTimes(a, k) == TheValue({BigTimesFrom(x, k, 1, 0) : x \in {a}})

RECURSIVE BigMulFrom(_, _, _, _)
BigMulFrom(a, b, j, sum) ==
    IF j > Limbs THEN sum
    ELSE IF b[j] = 0 THEN BigMulFrom(a, b, j + 1, sum)
    ELSE TheValue({BigMulFrom(a, b, j + 1, s) :
                      s \in {BigAdd(sum, BigShiftLeft(BigTimes(a, b[j]),
                                                      LimbBits * (j - 1)))}})

BigMul(a, b) == TheValue({BigMulFrom(x, y, 1, BigZero) : x \in {a}, y \in {b}})

\* floor(a / d) and a mod d, for 0 < d <= 1000.
RECURSIVE BigDivFrom(_, _, _, _)
BigDivFrom(a, d, i, rem) ==
    IF i = 0 THEN [q |-> <<>>, r |-> rem]
    ELSE TheValue({TheValue({[q |-> rest.q \o <<cur \div d>>, r |-> rest.r] :
                                rest \in {BigDivFrom(a, d, i - 1, cur % d)}}) :
                      cur \in {rem * Base + a[i]}})

BigDiv(a, d) == TheValue({BigDivFrom(x, d, Limbs, 0) : x \in {a}})

\* The number of bits of a: 0 for 0, floor(log2(a)) + 1 otherwise.
RECURSIVE IntBits(_)
IntBits(n) == IF n = 0 THEN 0 ELSE 1 + IntBits(n \div 2)

RECURSIVE BigBitsFrom(_, _)
BigBitsFrom(a, i) ==
    IF i = 0 THEN 0
    ELSE IF a[i] = 0 THEN BigBitsFrom(a, i - 1)
    ELSE LimbBits * (i - 1) + IntBits(a[i])

BigBits(a) == TheValue({BigBitsFrom(x, Limbs) : x \in {a}})

\* a rounded to Mantissa significant bits: to the nearest such number, and
\* to the one with an even last bit when a is halfway between two.
RoundUp(a, q, low, half, d) ==
    TheValue({IF BigLess(half, rest) \/ (rest = half /\ q[1] % 2 = 1)
              THEN BigShiftLeft(BigAdd(q, BigOfInt(1)), d)
              ELSE low :
                 rest \in {BigSub(a, low)}})

RoundKeeping(a, d) ==
    TheValue({RoundUp(a, q, low, half, d) :
                 q \in {BigShiftRight(a, d)},
                 low \in {BigShiftLeft(BigShiftRight(a, d), d)},
                 half \in {BigShiftLeft(BigOfInt(1), d - 1)}})

RoundToMantissa(a) ==
    TheValue({TheValue({IF n <= Mantissa THEN x ELSE RoundKeeping(x, n - Mantissa) :
                           n \in {BigBits(x)}}) :
                 x \in {a}})

\* The float nearest to a magnitude counted in units of 2^-(2 * Fraction).
FloatMagnitude(wide) == BigShiftRight(RoundToMantissa(wide), Fraction)

Float(neg, mag) == TheValue({[neg |-> neg /\ ~BigIsZero(x), mag |-> x] : x \in {mag}})

\* float(n / d): the float a decimal literal denotes, for an integer n and
\* 0 < d <= 1000.  The inexact quotient keeps a last bit set, below the
\* rounding position, so that it never counts as halfway.
FloatOfRatio(n, d) ==
    TheValue({Float(n < 0,
                    FloatMagnitude(IF qr.r = 0 THEN qr.q
                                   ELSE [qr.q EXCEPT ![1] = qr.q[1] - (qr.q[1] % 2) + 1])) :
                 qr \in {BigDiv(BigShiftLeft(BigOfInt(IF n < 0 THEN -n ELSE n),
                                             2 * Fraction), d)}})

\* x + y with the magnitudes a of x and b of y.
FloatAddMagnitudes(x, y, a, b) ==
    IF x.neg = y.neg THEN Float(x.neg, RoundToMantissa(BigAdd(a, b)))
    ELSE IF BigLess(a, b) THEN Float(y.neg, RoundToMantissa(BigSub(b, a)))
    ELSE Float(x.neg, RoundToMantissa(BigSub(a, b)))

\* float.__sub__, float.__mul__, abs, float.__lt__
FloatSub(x, y) ==
    TheValue({FloatAddMagnitudes(xv, [neg |-> ~yv.neg, mag |-> yv.mag], xv.mag, yv.mag) :
                 xv \in {x}, yv \in {y}})

FloatMul(x, y) ==
    TheValue({Float(xv.neg # yv.neg, FloatMagnitude(BigMul(xv.mag, yv.mag))) :
                 xv \in {x}, yv \in {y}})

FloatAbs(x) == TheValue({[neg |-> FALSE, mag |-> xv.mag] : xv \in {x}})

FloatLess(x, y) ==
    TheValue({IF xv.neg = yv.neg
              THEN IF xv.neg THEN BigLess(yv.mag, xv.mag) ELSE BigLess(xv.mag, yv.mag)
              ELSE xv.neg :
                 xv \in {x}, yv \in {y}})

(***************************************************************************)
(* compute_scale_bar_length                                                *)
(***************************************************************************)
\* The candidate lengths, in thousandths, in the order of the Python lists.
valid_time_bar_length ==
    <<100, 500, 1000, 2000, 5000, 10000, 20000, 50000, 100000, 200000,
      500000, 1000000, 2000000, 5000000>>
valid_voltage_bar_length ==
    <<100, 500, 1000, 2000, 5000, 10000, 20000, 50000, 100000>>
valid_current_bar_length ==
    <<1, 5, 10, 50, 100, 500, 1000, 5000, 10000, 50000>>

\* target_length = bar_length * (limit[1] - limit[0]), as a float; bar_length
\* is in twentieths and the limits in thousandths.
target_length(bar_length, limit) ==
    FloatMul(FloatOfRatio(bar_length, 20),
             FloatSub(FloatOfRatio(limit[2], 1000), FloatOfRatio(limit[1], 1000)))

\* The floats written in the three lists.
RECURSIVE FloatsOf(_, _)
FloatsOf(list, i) ==
    IF i > Len(list) THEN <<>>
    ELSE <<FloatOfRatio(list[i], 1000)>> \o FloatsOf(list, i + 1)

valid_bar_lengths ==
    valid_time_bar_length \o valid_voltage_bar_length \o valid_current_bar_length
valid_bar_length_floats == FloatsOf(valid_bar_lengths, 1)

FloatOfCandidate(x) ==
    valid_bar_length_floats[CHOOSE i \in 1..Len(valid_bar_lengths) : valid_bar_lengths[i] = x]

\* key=lambda x: abs(x - target_length), for the candidate x in thousandths.
key(x, target) == FloatAbs(FloatSub(FloatOfCandidate(x), target))

\* Python's min(list, key=...): the first element, in list order, whose key
\* no other element's key is below.  best is the index of the smallest key
\* among the first i - 1 elements, and best_key that key.
RECURSIVE MinByKey(_, _, _, _, _)
MinByKey(list, i, best, best_key, target) ==
    IF i > Len(list) THEN list[best]
    ELSE TheValue({IF FloatLess(k, best_key)
                   THEN MinByKey(list, i + 1, i, k, target)
                   ELSE MinByKey(list, i + 1, best, best_key, target) :
                      k \in {key(list[i], target)}})

\* A min that keeps the last of the elements with the smallest key.
RECURSIVE MinByKeyLast(_, _, _, _, _)
MinByKeyLast(list, i, best, best_key, target) ==
    IF i > Len(list) THEN list[best]
    ELSE TheValue({IF FloatLess(best_key, k)
                   THEN MinByKeyLast(list, i + 1, best, best_key, target)
                   ELSE MinByKeyLast(list, i + 1, i, k, target) :
                      k \in {key(list[i], target)}})

PyMinLast(list, target) ==
    TheValue({TheValue({MinByKeyLast(list, 2, 1, k, t) : k \in {key(list[1], t)}}) :
                 t \in {target}})

PyMin(list, target) ==
    TheValue({TheValue({MinByKey(list, 2, 1, k, t) : k \in {key(list[1], t)}}) :
                 t \in {target}})

\* compute_scale_bar_length taking the voltage candidates whatever is_current.
compute_scale_bar_length_voltage(axis, is_current, bar_length) ==
    <<PyMin(valid_time_bar_length, target_length(bar_length, axis.xlim)),
      PyMin(valid_voltage_bar_length, target_length(bar_length, axis.ylim))>>

compute_scale_bar_length(axis, is_current, bar_length) ==
    LET time_bar_length == PyMin(valid_time_bar_length, target_length(bar_length, axis.xlim))
        IV_bar_length ==
            IF is_current
            THEN PyMin(valid_current_bar_length, target_length(bar_length, axis.ylim))
            ELSE PyMin(valid_voltage_bar_length, target_length(bar_length, axis.ylim))
    IN  <<time_bar_length, IV_bar_length>>

(***************************************************************************)
(* compute_scale_bar_position (result in ten-thousandths)                  *)
(***************************************************************************)
\* compute_scale_bar_position with the margin taken from the upper time limit.
compute_scale_bar_position_upper(axis, time_bar_length, is_current) ==
    <<10 * axis.xlim[2] - 12 * time_bar_length,
      IF is_current
      THEN 10 * axis.ylim[1] + 3 * (axis.ylim[2] - axis.ylim[1])
      ELSE 10 * axis.ylim[1]>>

\* compute_scale_bar_position taking 0.3 of the upper limit, not of the range.
compute_scale_bar_position_top(axis, time_bar_length, is_current) ==
    <<10 * axis.xlim[1] - 12 * time_bar_length,
      IF is_current
      THEN 10 * axis.ylim[1] + 3 * axis.ylim[2]
      ELSE 10 * axis.ylim[1]>>

compute_scale_bar_position(axis, time_bar_length, is_current) ==
    LET time_limit == axis.xlim
        IV_limit == axis.ylim
        x_pos == 10 * time_limit[1] - 12 * time_bar_length
        y_pos == IF is_current
                 THEN 10 * IV_limit[1] + 3 * (IV_limit[2] - IV_limit[1])
                 ELSE 10 * IV_limit[1]
    IN  <<x_pos, y_pos>>

(***************************************************************************)
(* format_float: Decimal(str(f)), quantized to an integer when it is one,  *)
(* normalized (trailing zeros stripped) otherwise.  f is in thousandths;   *)
(* the result is the sequence of the characters of the string.             *)
(***************************************************************************)
Digit(k) == <<"0", "1", "2", "3", "4", "5", "6", "7", "8", "9">>[k + 1]

RECURSIVE Digits(_)
Digits(n) == IF n < 10 THEN <<Digit(n)>> ELSE Digits(n \div 10) \o <<Digit(n % 10)>>

\* The three decimals of a fraction fp / 1000, 0 < fp < 1000, without trailing zeros.
FractionDigits(fp) ==
    LET d1 == fp \div 100
        d2 == (fp \div 10) % 10
        d3 == fp % 10
    IN  IF d3 # 0 THEN <<Digit(d1), Digit(d2), Digit(d3)>>
        ELSE IF d2 # 0 THEN <<Digit(d1), Digit(d2)>>
        ELSE <<Digit(d1)>>

format_float(f) ==
    IF f % 1000 = 0
    THEN Digits(f \div 1000)
    ELSE Digits(f \div 1000) \o <<".">> \o FractionDigits(f % 1000)

(***************************************************************************)
(* The rendering library's objects.                                        *)
(***************************************************************************)
AxisIds == 1..4

\* A fresh matplotlib axis: limits (0, 1), nothing drawn, spines and ticks shown.
BlankAxis ==
    [xlim |-> <<0, 1000>>, ylim |-> <<0, 1000>>, lines |-> <<>>, texts |-> <<>>,
     spines |-> TRUE, ticks |-> TRUE, xlabel |-> "", ylabel |-> ""]

\* An entry of the log: the call ev, the axis it is made on (0: the figure),
\* and the artist or series it concerns.
Event(ev, ax, obj) == [ev |-> ev, ax |-> ax, obj |-> obj]

\* A line artist.  unit is "1e-4" for the bars and "1e-3" for the data traces.
Line(obj, xs, ys, unit) == [obj |-> obj, xs |-> xs, ys |-> ys, unit |-> unit]

\* A text artist, positioned in ten-thousandths.
Text(obj, x, y, text, ha, va) ==
    [obj |-> obj, x |-> x, y |-> y, text |-> text, ha |-> ha, va |-> va]

\* bb_data: a bounding box in data coordinates (thousandths), with the
\* width and height a Bbox derives from its corners.
BBox(x0, y0, x1, y1) ==
    [x0 |-> x0, y0 |-> y0, x1 |-> x1, y1 |-> y1, width |-> x1 - x0, height |-> y1 - y0]

\* The boxes the renderer may measure for a label.
BBoxes == {BBox(-700, -900, -400, -500), BBox(-3000, -2000, -500, -500)}

\* bar_length=0.15 of compute_scale_bar_length, in twentieths.
DefaultBarLength == 3

\* Lines 87-91: the box reported and outlined on the axis.  The print leaves
\* the axis and the rendering library alone.  The first line is asked for in
\* the colour "c0", which is no colour of the library ("C0" is): a library
\* that validates the colour when the line is made raises there, before any
\* line is added (c0_valid is FALSE); one that validates it when the line is
\* rendered adds the four lines (c0_valid is TRUE).
get_text_bbox_debug(m, ax, bb_data, c0_valid) ==
    IF ~c0_valid
    THEN [axes |-> m.axes, log |-> m.log,
          exc |-> "ValueError: 'c0' is not a valid value for color"]
    ELSE LET x0 == bb_data.x0
             x1 == bb_data.x1
             y0 == bb_data.y0
             y1 == bb_data.y1
         IN  [axes |-> [m.axes EXCEPT ![ax].lines = @ \o
                          <<Line("debug1", <<x0, x1>>, <<y0, y0>>, "1e-3"),
                            Line("debug2", <<x0, x1>>, <<y1, y1>>, "1e-3"),
                            Line("debug3", <<x0, x0>>, <<y0, y1>>, "1e-3"),
                            Line("debug4", <<x1, x1>>, <<y0, y1>>, "1e-3")>>],
              log |-> m.log \o
                          <<Event("plot", ax, "debug1"), Event("plot", ax, "debug2"),
                            Event("plot", ax, "debug3"), Event("plot", ax, "debug4")>>,
              exc |-> "none"]

\* get_text_bbox measuring without drawing the canvas first.
get_text_bbox_nodraw(m, text, ax, debug, bb_data, c0_valid) ==
    TheValue({IF debug THEN get_text_bbox_debug(m1, ax, bb_data, c0_valid)
              ELSE [axes |-> m1.axes, log |-> m1.log, exc |-> "none"] :
                 m1 \in {[axes |-> m.axes,
                          log |-> m.log \o <<Event("get_window_extent", ax, text)>>]}})

(***************************************************************************)
(* get_text_bbox(text, axis, debug) on the machine state m = [axes, log]:  *)
(* forces a draw of the canvas, then measures the text; bb_data is the box *)
(* the renderer measures, which the call returns unless it raises.  The    *)
(* result is the machine state after the call and the exception, if any.   *)
(***************************************************************************)
get_text_bbox(m, text, ax, debug, bb_data, c0_valid) ==
    TheValue({IF debug THEN get_text_bbox_debug(m1, ax, bb_data, c0_valid)
              ELSE [axes |-> m1.axes, log |-> m1.log, exc |-> "none"] :
                 m1 \in {[axes |-> m.axes,
                          log |-> m.log \o <<Event("canvas.draw", ax, ""),
                                             Event("get_window_extent", ax, text)>>]}})

\* Lines 207-209: where the time label goes, given the measured height.
time_label_position(scale_bar_origin, time_bar_length, text_height) ==
    <<scale_bar_origin[1] + 5 * time_bar_length, scale_bar_origin[2] - 18 * text_height>>

\* The voltage or current label shifted to the right of the bar.
iv_label_position_right(scale_bar_origin, IV_bar_length, text_length) ==
    <<scale_bar_origin[1] + 13 * text_length, scale_bar_origin[2] + 5 * IV_bar_length>>

\* Lines 212-214: where the voltage or current label goes, given the measured width.
iv_label_position(scale_bar_origin, IV_bar_length, text_length) ==
    <<scale_bar_origin[1] - 13 * text_length, scale_bar_origin[2] + 5 * IV_bar_length>>

(***************************************************************************)
(* draw_scale_bars on axis ax of the machine state m = [axes, log].        *)
(* bb_time and bb_iv are the boxes get_text_bbox returns for the labels.   *)
(***************************************************************************)
draw_scale_bars(m, ax, is_current, style, bb_time, bb_iv) ==
    LET st == define_style(style)
    IN  IF st.exc # "none"
        THEN [axes |-> m.axes, log |-> m.log, exc |-> st.exc]
        ELSE TheValue({
        LET axis == m.axes[ax]
            time_bar_length == lengths[1]
            IV_bar_length == lengths[2]
            scale_bar_origin == compute_scale_bar_position(axis, time_bar_length, is_current)
            ox == scale_bar_origin[1]
            oy == scale_bar_origin[2]
            \* Draw the bars
            lines1 == axis.lines \o
                <<Line("time_bar", <<ox, ox + 10 * time_bar_length>>, <<oy, oy>>, "1e-4"),
                  Line("iv_bar", <<ox, ox>>, <<oy, oy + 10 * IV_bar_length>>, "1e-4")>>
            \* Add the labels at the origin of the bars
            it == Len(axis.texts) + 1
            ii == Len(axis.texts) + 2
            time_label == Text("time_label", ox, oy,
                               format_float(time_bar_length) \o <<" ", "m", "s">>,
                               "center", "bottom")
            iv_label == Text("iv_label", ox, oy,
                             format_float(IV_bar_length) \o
                                 (IF is_current THEN <<" ", "n", "A">> ELSE <<" ", "m", "V">>),
                             "left", "center")
            texts1 == axis.texts \o <<time_label, iv_label>>
            log1 == m.log \o
                <<Event("compute_scale_bar_length", ax, ""),
                  Event("compute_scale_bar_position", ax, ""),
                  Event("plot", ax, "time_bar"),
                  Event("plot", ax, "iv_bar"),
                  Event("text", ax, "time_label"),
                  Event("text", ax, "iv_label")>>
            m1 == [axes |-> [m.axes EXCEPT ![ax].lines = lines1, ![ax].texts = texts1],
                   log |-> log1]
            \* Move the labels such that they do not overlap with the scale bars
            m2 == get_text_bbox(m1, "time_label", ax, FALSE, bb_time, TRUE)
            text_height == bb_time.height
            time_pos == time_label_position(scale_bar_origin, time_bar_length, text_height)
            m3 == [axes |-> [m2.axes EXCEPT ![ax].texts[it].x = time_pos[1],
                                            ![ax].texts[it].y = time_pos[2]],
                   log |-> m2.log \o <<Event("set_position", ax, "time_label")>>]
            m4 == get_text_bbox(m3, "iv_label", ax, FALSE, bb_iv, TRUE)
            text_length == bb_iv.width
            iv_pos == iv_label_position(scale_bar_origin, IV_bar_length, text_length)
        IN  [axes |-> [m4.axes EXCEPT ![ax].texts[ii].x = iv_pos[1],
                                      ![ax].texts[ii].y = iv_pos[2]],
             log |-> m4.log \o <<Event("set_position", ax, "iv_label")>>,
             exc |-> "none"] :
            lengths \in {compute_scale_bar_length(m.axes[ax], is_current, DefaultBarLength)}})

(***************************************************************************)
(* hide_spines                                                             *)
(***************************************************************************)
hide_spines(m, ax) ==
    [axes |-> [m.axes EXCEPT ![ax].spines = FALSE, ![ax].ticks = FALSE],
     log |-> Append(m.log, Event("hide_spines", ax, ""))]

(***************************************************************************)
(* plot_trace                                                              *)
(***************************************************************************)
\* Python values of the arguments: None, a str, a numpy array of numbers,
\* one Axes, a list of Axes, a numpy array of Axes.
None == [type |-> "None", text |-> "", data |-> <<>>, items |-> <<>>]
Str(text) == [type |-> "str", text |-> text, data |-> <<>>, items |-> <<>>]
Array(data) == [type |-> "ndarray", text |-> "", data |-> data, items |-> <<>>]
Axes(id) == [type |-> "Axes", text |-> "", data |-> <<>>, items |-> <<id>>]
AxesList(ids) == [type |-> "list", text |-> "", data |-> <<>>, items |-> ids]
AxesArray(ids) == [type |-> "ndarray", text |-> "", data |-> <<>>, items |-> ids]

\* numpy's min() and max() of an array.
RECURSIVE SeqMin(_)
SeqMin(q) ==
    IF Len(q) = 1 THEN q[1]
    ELSE LET r == SeqMin(Tail(q)) IN IF q[1] < r THEN q[1] ELSE r

RECURSIVE SeqMax(_)
SeqMax(q) ==
    IF Len(q) = 1 THEN q[1]
    ELSE LET r == SeqMax(Tail(q)) IN IF q[1] > r THEN q[1] ELSE r

\* The call ends by raising exc: nothing is returned.
Raised(m, exc) ==
    [axes |-> m.axes, log |-> m.log, exc |-> exc, fig |-> 0, axis |-> None]

\* In the operators below, c holds the arguments time_series, voltage_series,
\* current_series and title of the call, and bb, the boxes the renderer
\* measures for the labels of the voltage axis (bb[1], bb[2]) and of the
\* current axis (bb[3], bb[4]); axis_current is 0 when it is None.

\* Lines 306-311: the title, tight_layout, and the return of (fig, axis).
plot_trace_finish(m, c, axis, fig) ==
    LET log1 == IF c.title.type # "None"
                THEN Append(m.log, Event("suptitle", 0, ""))
                ELSE m.log
    IN  [axes |-> m.axes, log |-> Append(log1, Event("tight_layout", 0, "")),
         exc |-> "none", fig |-> fig, axis |-> axis]

\* Lines 298-299: the scale bars of the current axis, if there is one.
plot_trace_current_bars(m, c, style, axis_current) ==
    IF axis_current # 0
    THEN draw_scale_bars(m, axis_current, TRUE, StyleArg(style), c.bb[3], c.bb[4])
    ELSE m

\* Lines 301-304: the conventional axis labels.
plot_trace_labels(m, axis_voltage, axis_current) ==
    [axes |-> [m.axes EXCEPT
                  ![axis_current].xlabel = "Time (ms)",
                  ![axis_voltage].xlabel = "Time (ms)",
                  ![axis_current].ylabel = "Current (nA)",
                  ![axis_voltage].ylabel = "Voltage (mV)"],
     log |-> m.log \o
         <<Event("set_xlabel", axis_current, ""), Event("set_xlabel", axis_voltage, ""),
           Event("set_ylabel", axis_current, ""), Event("set_ylabel", axis_voltage, "")>>]

\* Lines 296-311: the scale bars, or the conventional axis labels.
plot_trace_annotate(m, c, axis, fig, style, axis_voltage, axis_current) ==
    IF style.scale_bars
    THEN TheValue(
           {plot_trace_finish(m2, c, axis, fig) :
              m2 \in {TheValue(
                        {plot_trace_current_bars(m1, c, style, axis_current) :
                           m1 \in {draw_scale_bars(m, axis_voltage, FALSE, StyleArg(style),
                                                   c.bb[1], c.bb[2])}})}})
    ELSE IF axis_current = 0
         THEN Raised(m, "AttributeError: 'NoneType' object has no attribute 'set_xlabel'")
         ELSE plot_trace_finish(plot_trace_labels(m, axis_voltage, axis_current),
                                c, axis, fig)

\* Lines 280-289: the traces, and the limits set to the limits of the data.
plot_trace_data(m, c, axis_voltage, axis_current) ==
    LET has_current == c.current_series.type # "None"
        xlim == <<c.time_series[1], c.time_series[Len(c.time_series)]>>
        vlim == <<SeqMin(c.voltage_series), SeqMax(c.voltage_series)>>
        ilim == <<SeqMin(c.current_series.data), SeqMax(c.current_series.data)>>
        axes1 == IF has_current
                 THEN [m.axes EXCEPT ![axis_current].lines =
                          Append(@, Line("current", c.time_series, c.current_series.data, "1e-3"))]
                 ELSE m.axes
        axes2 == [axes1 EXCEPT ![axis_voltage].lines =
                      Append(@, Line("voltage", c.time_series, c.voltage_series, "1e-3"))]
        axes3 == [axes2 EXCEPT ![axis_voltage].xlim = xlim, ![axis_voltage].ylim = vlim]
        axes4 == IF has_current
                 THEN [axes3 EXCEPT ![axis_current].xlim = xlim, ![axis_current].ylim = ilim]
                 ELSE axes3
    IN  [axes |-> axes4,
         log |-> m.log \o
             (IF has_current THEN <<Event("plot", axis_current, "current")>> ELSE <<>>) \o
             <<Event("plot", axis_voltage, "voltage"),
               Event("set_xlim", axis_voltage, ""), Event("set_ylim", axis_voltage, "")>> \o
             (IF has_current
              THEN <<Event("set_xlim", axis_current, ""), Event("set_ylim", axis_current, "")>>
              ELSE <<>>)]

\* Lines 291-294: the spines.
plot_trace_spines(m, style, axis_voltage, axis_current) ==
    IF ~style.show_spines
    THEN IF axis_current # 0
         THEN hide_spines(hide_spines(m, axis_voltage), axis_current)
         ELSE hide_spines(m, axis_voltage)
    ELSE m

\* Lines 280-311.
plot_trace_draw(m, c, axis, fig, style, axis_voltage, axis_current) ==
    TheValue(
      {plot_trace_annotate(m2, c, axis, fig, style, axis_voltage, axis_current) :
         m2 \in {plot_trace_spines(plot_trace_data(m, c, axis_voltage, axis_current),
                                   style, axis_voltage, axis_current)}})

\* Lines 273-278: which axis takes the current and which the voltage.
\* twinx() makes a new axis, axis 4, over the one it is called on.
plot_trace_axes(m, c, axis, fig, style) ==
    IF c.current_series.type # "None"
    THEN IF style.shared_axis
         THEN IF axis.type = "Axes"
              THEN plot_trace_draw(
                     [axes |-> m.axes, log |-> Append(m.log, Event("twinx", axis.items[1], ""))],
                     c, axis, fig, style, 4, axis.items[1])
              ELSE Raised(m, "AttributeError: 'list' object has no attribute 'twinx'")
         ELSE plot_trace_draw(m, c, axis, fig, style, axis.items[Len(axis.items)],
                              axis.items[1])
    ELSE IF axis.type = "Axes"
         THEN plot_trace_draw(m, c, axis, fig, style, axis.items[1], 0)
         ELSE Raised(m, "AttributeError: 'list' object has no attribute 'plot'")

\* plot_trace(time_series, voltage_series, current_series, title, axis, style)
\* on the machine state m.  plt.subplots(n_plots, 1) returns one Axes when
\* n_plots is 1 and a numpy array of Axes otherwise; the figure is figure 1.
plot_trace(m, c, axis, style) ==
    LET st == define_style(style)
    IN  IF st.exc # "none" THEN Raised(m, st.exc)
        ELSE
        LET n_plots == get_n_plots(1, IF c.current_series.type # "None" THEN 1 ELSE 0,
                                   st.value.shared_axis)
        IN  IF axis.type = "None"
            THEN plot_trace_axes(
                   [axes |-> m.axes, log |-> Append(m.log, Event("subplots", 0, ""))],
                   c, IF n_plots = 1 THEN Axes(1) ELSE AxesArray(<<1, 2>>), 1, st.value)
            ELSE IF axis.type = "Axes"
            THEN Raised(m, "TypeError: object of type 'Axes' has no len()")
            ELSE IF Len(axis.items) # n_plots
            THEN Raised(m, "ValueError: The number of axis provided is not the same as the number of series to plot.")
            ELSE IF axis.type = "list"
            THEN plot_trace_axes(m, c, axis, 1, st.value)
            ELSE Raised(m, "AttributeError: 'numpy.ndarray' object has no attribute 'get_figure'")

(***************************************************************************)
(* Specification Spec: the scale-bar functions called on one axis, axis 1, *)
(* whose limits Init draws.                                                *)
(***************************************************************************)
\* The widths of the axes, m * 10^e thousandths, and the lower limits.  The
\* two axes get the same width: the time length depends on the time limits
\* only and the dependent length on the dependent limits only.
Widths == {m * Pow10(e) : m \in 1..MaxMant, e \in 0..MaxExp}
XOrigins == {0, -2000}
YOrigins == {0, -2000, -80000}

\* Target fractions in (0, 1], in twentieths: 0.15, 0.25, 0.5, 1.
BarLengths == {3, 5, 10, 20}

\* Style arguments given to draw_scale_bars.
DrawStyleArgs ==
    {StrArg("explore"), StrArg("default"),
     StyleArg([kind |-> "Style", scale_bars |-> TRUE, show_spines |-> FALSE,
               shared_axis |-> FALSE])}

NoValue == [none |-> TRUE]

Init ==
    /\ op = "none"
    /\ arg = NoValue
    /\ ret = NoValue
    /\ log = <<>>
    /\ \E w \in Widths, x0 \in XOrigins, y0 \in YOrigins :
          axes = [i \in AxisIds |->
                    IF i = 1
                    THEN [BlankAxis EXCEPT !.xlim = <<x0, x0 + w>>, !.ylim = <<y0, y0 + w>>]
                    ELSE BlankAxis]

\* time_bar_length, IV_bar_length = compute_scale_bar_length(axis, is_current, bar_length)
ComputeScaleBarLength ==
    /\ op = "none"
    /\ \E is_current \in BOOLEAN, bar_length \in BarLengths :
          /\ arg' = [is_current |-> is_current, bar_length |-> bar_length]
          /\ ret' = compute_scale_bar_length(axes[1], is_current, bar_length)
    /\ op' = "compute_scale_bar_length"
    /\ UNCHANGED <<axes, log>>

\* compute_scale_bar_position(axis, time_bar_length, is_current), given the
\* time length the length selection returned.
ComputeScaleBarPosition ==
    /\ op = "compute_scale_bar_length"
    /\ \E is_current \in BOOLEAN :
          /\ arg' = [time_bar_length |-> ret[1], is_current |-> is_current]
          /\ ret' = compute_scale_bar_position(axes[1], ret[1], is_current)
    /\ op' = "compute_scale_bar_position"
    /\ UNCHANGED <<axes, log>>

\* draw_scale_bars(axis, is_current, style)
DrawScaleBars ==
    /\ op = "none"
    /\ \E is_current \in BOOLEAN, style \in DrawStyleArgs,
          bb_time \in BBoxes, bb_iv \in BBoxes :
          \E m \in {draw_scale_bars([axes |-> axes, log |-> log], 1, is_current, style,
                                    bb_time, bb_iv)} :
              /\ arg' = [is_current |-> is_current, style |-> style,
                         bb_time |-> bb_time, bb_iv |-> bb_iv]
              /\ ret' = [exc |-> m.exc]
              /\ axes' = m.axes
              /\ log' = m.log
    /\ op' = "draw_scale_bars"

\* get_text_bbox(text, axis, debug) on a label draw_scale_bars has placed.
GetTextBBox ==
    /\ op = "draw_scale_bars"
    /\ ret.exc = "none"
    /\ \E text \in {"time_label", "iv_label"}, debug \in BOOLEAN, bb_data \in BBoxes,
          c0_valid \in BOOLEAN :
          \E m \in {get_text_bbox([axes |-> axes, log |-> log], text, 1, debug, bb_data,
                                  c0_valid)} :
              /\ arg' = [text |-> text, debug |-> debug, bb_data |-> bb_data,
                         c0_valid |-> c0_valid]
              /\ ret' = [exc |-> m.exc]
              /\ axes' = m.axes
              /\ log' = m.log
    /\ op' = "get_text_bbox"

\* hide_spines(axis), called on an axis as it was made or after something
\* has been drawn on it.
HideSpines ==
    /\ op \in {"none", "draw_scale_bars", "plot_trace"}
    /\ \E ax \in AxisIds :
          \E m \in {hide_spines([axes |-> axes, log |-> log], ax)} :
              /\ arg' = [axis |-> ax]
              /\ axes' = m.axes
              /\ log' = m.log
    /\ ret' = [exc |-> "none"]
    /\ op' = "hide_spines"

Next ==
    \/ ComputeScaleBarLength
    \/ ComputeScaleBarPosition
    \/ DrawScaleBars
    \/ GetTextBBox
    \/ HideSpines

Spec == Init /\ [][Next]_vars

(***************************************************************************)
(* Specification SpecPlot: define_style and plot_trace called on fresh     *)
(* drawing surfaces.                                                       *)
(***************************************************************************)
TimeSeriesInputs == {<<0, 50000, 100000>>, <<0, 1000, 2000>>}
VoltageSeriesInputs == {<<-80000, 20000, -70000>>, <<-65000, -64000, -66000>>}
CurrentSeriesInputs == {None, Array(<<0, 2000, -2000>>), Array(<<0, 500, 0>>)}
TitleInputs == {None, Str("Trace")}
AxisInputs ==
    {None, Axes(1), AxesList(<<>>), AxesList(<<1>>), AxesList(<<1, 2>>),
     AxesList(<<1, 2, 3>>), AxesArray(<<1>>), AxesArray(<<1, 2>>)}
StyleNames == {"explore", "paper", "default", "Explore", ""}
StyleInputs ==
    {StrArg(n) : n \in StyleNames} \cup {StyleArg(s) : s \in Styles}
PlotStyleInputs ==
    {StrArg(n) : n \in StyleNames} \cup {StyleArg(s) : s \in {t \in Styles : t.kind = "Style"}}

\* The boxes measured during one plot_trace: one box for the two labels of
\* the voltage axis, one for the two labels of the current axis.
BBoxProfiles ==
    {[i \in 1..4 |-> IF i <= 2 THEN bv ELSE bc] : bv \in BBoxes, bc \in BBoxes}

BlankAxes == [i \in AxisIds |-> BlankAxis]

InitPlot ==
    /\ op = "none"
    /\ arg = NoValue
    /\ ret = NoValue
    /\ log = <<>>
    /\ axes = BlankAxes

\* define_style(style)
DefineStyle ==
    /\ op = "none"
    /\ \E style \in StyleInputs :
          /\ arg' = [style |-> style]
          /\ ret' = define_style(style)
    /\ op' = "define_style"
    /\ UNCHANGED <<axes, log>>

\* plot_trace(time_series, voltage_series, current_series, title, axis, style)
PlotTrace ==
    /\ op = "none"
    /\ \E time_series \in TimeSeriesInputs, voltage_series \in VoltageSeriesInputs,
          current_series \in CurrentSeriesInputs, title \in TitleInputs,
          axis \in AxisInputs, style \in PlotStyleInputs,
          bb \in BBoxProfiles :
          \E r \in {plot_trace([axes |-> axes, log |-> log],
                               [time_series |-> time_series,
                                voltage_series |-> voltage_series,
                                current_series |-> current_series,
                                title |-> title, bb |-> bb],
                               axis, style)} :
              /\ arg' = [time_series |-> time_series, voltage_series |-> voltage_series,
                         current_series |-> current_series, title |-> title,
                         axis |-> axis, style |-> style]
              /\ ret' = [exc |-> r.exc, fig |-> r.fig, axis |-> r.axis]
              /\ axes' = r.axes
              /\ log' = r.log
    /\ op' = "plot_trace"

NextPlot ==
    \/ DefineStyle
    \/ PlotTrace
    \/ HideSpines

SpecPlot == InitPlot /\ [][NextPlot]_vars

(***************************************************************************)
(* Properties.                                                             *)
(***************************************************************************)
Range(q) == {q[i] : i \in 1..Len(q)}

\* The candidate set of the dependent quantity.
DependentCandidates(is_current) ==
    IF is_current THEN valid_current_bar_length ELSE valid_voltage_bar_length

Abs(x) == IF x < 0 THEN -x ELSE x

\* The distance of the candidate x from bar_length * (max - min), times 20,
\* in the decimal numbers the caller wrote: x and limit in thousandths,
\* bar_length in twentieths.
DecimalDistance20(x, bar_length, limit) == Abs(20 * x - bar_length * (limit[2] - limit[1]))

\* x is a candidate of list nearest to the target length.
Nearest(x, list, bar_length, limit) ==
    /\ x \in Range(list)
    /\ \A c \in Range(list) :
          DecimalDistance20(x, bar_length, limit) <= DecimalDistance20(c, bar_length, limit)

\* C1: compute_scale_bar_length returns a time length that is a time
\* candidate and a dependent length that is a current candidate when
\* is_current and a voltage candidate otherwise; each is at the smallest
\* distance from bar_length * (max - min) among its candidates.
C1_LengthsAreNearestCandidates ==
    op = "compute_scale_bar_length" =>
        /\ Nearest(ret[1], valid_time_bar_length, arg.bar_length, axes[1].xlim)
        /\ Nearest(ret[2], DependentCandidates(arg.is_current), arg.bar_length,
                   axes[1].ylim)

C1_Witness ==
    /\ op = "compute_scale_bar_length"
    /\ arg.is_current
    /\ arg.bar_length = 20
    /\ axes[1].xlim = <<-2000, 6998000>>
    /\ axes[1].ylim = <<-80000, 6920000>>
    /\ ret = <<5000000, 50000>>

\* |x - target|, exactly, in units of 2^-Fraction: the distance of the float
\* of the candidate x from the float target >= 0, before any rounding.
ExactDistance(x, target) ==
    TheValue({IF BigLess(a, b) THEN BigSub(b, a) ELSE BigSub(a, b) :
                 a \in {FloatOfCandidate(x).mag}, b \in {target.mag}})

RECURSIVE ExactDistances(_, _, _)
ExactDistances(list, target, i) ==
    IF i > Len(list) THEN <<>>
    ELSE <<ExactDistance(list[i], target)>> \o ExactDistances(list, target, i + 1)

\* Two candidates of list are exactly equidistant from target, and no
\* candidate is nearer.
ExactTie(list, target) ==
    TheValue({\E i, j \in 1..Len(list) :
                  /\ i < j
                  /\ d[i] = d[j]
                  /\ \A k \in 1..Len(list) : ~BigLess(d[k], d[i]) :
                 d \in {ExactDistances(list, target, 1)}})

\* Of two candidates of list exactly equidistant from target, and nearest to
\* it, x is the smaller.
SmallerOfTied(x, list, target) ==
    TheValue({\A i, j \in 1..Len(list) :
                  ( /\ list[i] < list[j]
                    /\ d[i] = d[j]
                    /\ \A k \in 1..Len(list) : ~BigLess(d[k], d[i]) )
                  => x = list[i] :
                 d \in {ExactDistances(list, target, 1)}})

\* Of two candidates of list at the same, smallest, distance from
\* bar_length * (max - min), taken on the decimal numbers of the limits, the
\* fraction and the candidates, x is the smaller.
SmallerOfDecimalTied(x, list, bar_length, limit) ==
    \A c1, c2 \in Range(list) :
        ( /\ c1 < c2
          /\ DecimalDistance20(c1, bar_length, limit) = DecimalDistance20(c2, bar_length, limit)
          /\ Nearest(c1, list, bar_length, limit) )
        => x = c1

\* C2, as claimed: when two candidates are exactly equidistant from the
\* target length bar_length * (max - min), the smaller is returned, for every
\* candidate list and every range; the time range [0, 100] and the voltage
\* range [-80, 20], with fraction 0.15, both give exactly 10.
C2_TieReturnsSmaller ==
    op = "compute_scale_bar_length" =>
        /\ SmallerOfDecimalTied(ret[1], valid_time_bar_length, arg.bar_length,
                                axes[1].xlim)
        /\ SmallerOfDecimalTied(ret[2], DependentCandidates(arg.is_current),
                                arg.bar_length, axes[1].ylim)
        /\ (axes[1].xlim = <<0, 100000>> /\ arg.bar_length = 3) => ret[1] = 10000
        /\ (axes[1].ylim = <<-80000, 20000>> /\ arg.bar_length = 3 /\ ~arg.is_current)
              => ret[2] = 10000

\* C2, amended: when two candidates are exactly equidistant from the target
\* length the code computed, the float bar_length * (max - min), the smaller
\* is returned; the time range [0, 100] and the voltage range [-80, 20],
\* with fraction 0.15, both give exactly 10.
C2_FloatTieReturnsSmaller ==
    op = "compute_scale_bar_length" =>
        /\ SmallerOfTied(ret[1], valid_time_bar_length,
                         target_length(arg.bar_length, axes[1].xlim))
        /\ SmallerOfTied(ret[2], DependentCandidates(arg.is_current),
                         target_length(arg.bar_length, axes[1].ylim))
        /\ (axes[1].xlim = <<0, 100000>> /\ arg.bar_length = 3) => ret[1] = 10000
        /\ (axes[1].ylim = <<-80000, 20000>> /\ arg.bar_length = 3 /\ ~arg.is_current)
              => ret[2] = 10000

C2_Witness ==
    /\ op = "compute_scale_bar_length"
    /\ axes[1].xlim = <<0, 100000>>
    /\ axes[1].ylim = <<-80000, 20000>>
    /\ arg.bar_length = 3
    /\ ~arg.is_current
    /\ ExactTie(valid_time_bar_length, target_length(3, axes[1].xlim))
    /\ ExactTie(valid_voltage_bar_length, target_length(3, axes[1].ylim))
    /\ ret = <<10000, 10000>>

\* C3: the x of the position is range_x.min - 1.2 * timeLength, strictly
\* left of range_x.min, for every time length the selection produced.
C3_OriginLeftOfData ==
    op = "compute_scale_bar_position" =>
        /\ ret[1] = 10 * axes[1].xlim[1] - 12 * arg.time_bar_length
        /\ ret[1] < 10 * axes[1].xlim[1]

C3_Witness ==
    /\ op = "compute_scale_bar_position"
    /\ arg.time_bar_length = 5000000
    /\ axes[1].xlim[1] = -2000
    /\ ret[1] = -60020000

\* C4: the y of the position is range_y.min + 0.3 * (range_y.max -
\* range_y.min) when is_current, strictly between the two limits (-0.8 for
\* [-2, 2]), and range_y.min when not.
C4_OriginHeight ==
    op = "compute_scale_bar_position" =>
        LET lo == axes[1].ylim[1]
            hi == axes[1].ylim[2]
        IN  /\ arg.is_current =>
                  /\ ret[2] = 10 * lo + 3 * (hi - lo)
                  /\ 10 * lo < ret[2]
                  /\ ret[2] < 10 * hi
            /\ (arg.is_current /\ axes[1].ylim = <<-2000, 2000>>) => ret[2] = -8000
            /\ ~arg.is_current => ret[2] = 10 * lo

C4_Witness ==
    /\ op = "compute_scale_bar_position"
    /\ arg.is_current
    /\ axes[1].ylim = <<-2000, 2000>>
    /\ ret[2] = -8000

\* C5: define_style returns the explore preset for "explore", the paper
\* preset for "paper", a Style object unchanged, and raises the unknown-style
\* error, returning no style, for every other name.
C5_StyleResolution ==
    op = "define_style" =>
        IF arg.style.type = "Style"
        THEN ret = Ok(arg.style.obj)
        ELSE IF arg.style.name = "explore" THEN ret = Ok(ExploreStyle)
        ELSE IF arg.style.name = "paper" THEN ret = Ok(PaperStyle)
        ELSE ret = Raise("ValueError: Unknown style", NoStyle)

C5_Witness ==
    /\ op = "define_style"
    /\ arg.style = StrArg("Explore")
    /\ ret.exc = "ValueError: Unknown style"

\* The style argument of the call names a preset or is a Style object.
StyleResolves == arg.style.type = "Style" \/ arg.style.name \in {"explore", "paper"}

\* The style the call works with.
StyleOf ==
    IF arg.style.type = "Style" THEN arg.style.obj
    ELSE IF arg.style.name = "explore" THEN ExploreStyle
    ELSE PaperStyle

\* The required plot count: 1 when the style shares the axis or no current
\* series is given, otherwise 2.
RequiredPlots ==
    IF StyleOf.shared_axis \/ arg.current_series.type = "None" THEN 1 ELSE 2

\* The caller supplied a collection of axes.
AxesSupplied == arg.axis.type \in {"list", "ndarray"}

ShapeMismatch ==
    "ValueError: The number of axis provided is not the same as the number of series to plot."

\* C6: given a collection of axes whose count differs from the required
\* plot count, plot_trace raises the shape-mismatch error before anything
\* is drawn or changed.
C6_ShapeMismatchBeforeDrawing ==
    ( /\ op = "plot_trace"
      /\ StyleResolves
      /\ AxesSupplied
      /\ Len(arg.axis.items) # RequiredPlots )
    => /\ ret.exc = ShapeMismatch
       /\ axes = BlankAxes
       /\ log = <<>>

C6_Witness ==
    /\ op = "plot_trace"
    /\ arg.axis = AxesList(<<1, 2>>)
    /\ arg.current_series.type # "None"
    /\ StyleResolves
    /\ StyleOf.shared_axis
    /\ ret.exc = ShapeMismatch

\* The axes a data trace has been drawn on.
AxesUsed ==
    {i \in AxisIds : \E k \in 1..Len(axes[i].lines) :
                        axes[i].lines[k].obj \in {"voltage", "current"}}

HasLine(i, obj) == \E k \in 1..Len(axes[i].lines) : axes[i].lines[k].obj = obj

\* C7: with no axes supplied, plot_trace returns the figure and the axes for
\* every combination of current given or not and of the three style flags;
\* it draws scale bars on each axis used when style.scale_bars, and the
\* conventional axis labels otherwise.
C7_CompletesOnNewAxes ==
    ( /\ op = "plot_trace"
      /\ StyleResolves
      /\ arg.axis.type = "None" )
    => /\ ret.exc = "none"
       /\ ret.fig = 1
       /\ Len(ret.axis.items) = RequiredPlots
       /\ AxesUsed # {}
       /\ \A i \in AxesUsed :
             IF StyleOf.scale_bars
             THEN HasLine(i, "time_bar") /\ HasLine(i, "iv_bar")
             ELSE axes[i].xlabel = "Time (ms)" /\ axes[i].ylabel # ""

\* C8: given a collection of axes whose count is the required plot count,
\* plot_trace draws the voltage trace, and the current trace if given, on
\* those axes and returns them with their figure.
C8_DrawsOnSuppliedAxes ==
    ( /\ op = "plot_trace"
      /\ StyleResolves
      /\ AxesSupplied
      /\ Len(arg.axis.items) = RequiredPlots )
    => /\ ret.exc = "none"
       /\ ret.fig = 1
       /\ ret.axis = arg.axis
       /\ \E i \in AxesUsed : HasLine(i, "voltage")
       /\ arg.current_series.type # "None" =>
             \E i \in Range(arg.axis.items) : HasLine(i, "current")

\* The step of draw_scale_bars an entry of the log belongs to.
Phase(e) ==
    CASE e.ev = "compute_scale_bar_length" -> 1
      [] e.ev = "compute_scale_bar_position" -> 2
      [] e.ev = "plot" -> 3
      [] e.ev = "text" -> 4
      [] OTHER -> 5

Happens(ev, obj) == \E i \in 1..Len(log) : log[i].ev = ev /\ log[i].obj = obj

\* C9: in draw_scale_bars the lengths are selected, then the origin is
\* computed, then both bars are drawn, then both labels are placed, and only
\* then are the labels measured and repositioned; every measurement, also
\* one get_text_bbox makes when called on its own, comes right after a draw
\* of the canvas, and a label is repositioned only after it has been
\* measured.
C9_MeasureAfterDraw ==
    /\ op = "get_text_bbox" =>
          \A i \in 1..Len(log) :
              log[i].ev = "get_window_extent" =>
                  i > 1 /\ log[i - 1].ev = "canvas.draw" /\ log[i - 1].ax = log[i].ax
    /\ (op = "draw_scale_bars" /\ ret.exc = "none") =>
        /\ \A i \in 1..(Len(log) - 1) : Phase(log[i]) <= Phase(log[i + 1])
        /\ \A p \in 1..5 : \E i \in 1..Len(log) : Phase(log[i]) = p
        /\ Happens("plot", "time_bar") /\ Happens("plot", "iv_bar")
        /\ Happens("text", "time_label") /\ Happens("text", "iv_label")
        /\ Happens("set_position", "time_label") /\ Happens("set_position", "iv_label")
        /\ \A i \in 1..Len(log) :
              log[i].ev = "get_window_extent" =>
                  /\ i > 1
                  /\ log[i - 1].ev = "canvas.draw"
                  /\ log[i - 1].ax = log[i].ax
        /\ \A j \in 1..Len(log) :
              log[j].ev = "set_position" =>
                  \E i \in 1..(j - 1) :
                      log[i].ev = "get_window_extent" /\ log[i].obj = log[j].obj

C9_Witness ==
    /\ op = "draw_scale_bars"
    /\ ret.exc = "none"
    /\ Len(log) = 12
    /\ log[7].ev = "canvas.draw"
    /\ log[8] = Event("get_window_extent", 1, "time_label")
    /\ log[9] = Event("set_position", 1, "time_label")

\* C10: after draw_scale_bars the time label is at (origin.x + 0.5 *
\* timeLength, origin.y - 1.8 * h_t) and the dependent label at (origin.x -
\* 1.3 * w_d, origin.y + 0.5 * depLength), h_t and w_d being the measured
\* height of the time label and width of the dependent label, for both
\* values of is_current.
C10_LabelPositions ==
    (op = "draw_scale_bars" /\ ret.exc = "none") =>
        LET lengths == compute_scale_bar_length(axes[1], arg.is_current, DefaultBarLength)
            origin == compute_scale_bar_position(axes[1], lengths[1], arg.is_current)
            time_label == axes[1].texts[1]
            iv_label == axes[1].texts[2]
        IN  /\ time_label.obj = "time_label"
            /\ iv_label.obj = "iv_label"
            /\ 2 * time_label.x = 2 * origin[1] + 10 * lengths[1]
            /\ time_label.y = origin[2] - 18 * arg.bb_time.height
            /\ iv_label.x = origin[1] - 13 * arg.bb_iv.width
            /\ 2 * iv_label.y = 2 * origin[2] + 10 * lengths[2]

C10_Witness ==
    /\ op = "draw_scale_bars"
    /\ ret.exc = "none"
    /\ arg.is_current
    /\ arg.bb_time.height = 1500
    /\ arg.bb_iv.width = 300
    /\ axes[1].xlim = <<0, 4000>>
    /\ axes[1].ylim = <<-2000, 2000>>
    /\ axes[1].texts[1].x = -3500
    /\ axes[1].texts[1].y = -35000
    /\ axes[1].texts[2].x = -9900
    /\ axes[1].texts[2].y = -5500

====
